---- MODULE Spec2Model ----
(***************************************************************************)
(* A model of WDL/Env2.py (the namespaced binding environment, class Base) *)
(* and of WDL/Expr.py (expression nodes, their one-time type slot, type    *)
(* inference and typecheck).                                               *)
(*                                                                         *)
(* Names are Python strings, modelled as sequences of one-character        *)
(* strings.  A dict is the sequence of its (key, value) pairs in insertion *)
(* order, a set is a set.  Every Base object owns a dict object and a set  *)
(* object; both live in a heap so that sharing of a dict or a set between  *)
(* two environments is representable.                                      *)
(***************************************************************************)
EXTENDS Integers, Sequences, FiniteSets, TLC

\* ---------------------------------------------------------------- bounds
\* Largest number of bindings of the environment the caller keeps in x.
MaxItems == 1
\* Largest number of namespaces of the environment the caller keeps in x.
MaxNs == 2

Dot == "."
\* Characters the segments of input names are made of.
Segs == {"a", "b"}
\* Values bound to names.
Values == {1, 2}
\* Heap addresses: the caller's environment, the environment a call
\* returned, and the object under construction.
Addr == {1, 2, 3}

RECURSIVE NamesOfDepth(_)
NamesOfDepth(d) ==
    IF d = 1 THEN {<<c>> : c \in Segs}
    ELSE {n \o <<Dot, c>> : n \in NamesOfDepth(d - 1), c \in Segs}

\* Well-formed names: non-empty dot-free segments joined by dots.
Names ==
    NamesOfDepth(1) \cup NamesOfDepth(2)
    \cup {<<"a", Dot, "b", Dot, "a">>}
\* The same names written with a trailing separator ("foo.bar.").
DottedNames == {n \o <<Dot>> : n \in Names}

\* ------------------------------------------------- Python str operations
\* str.endswith(c) for a one-character c
endswith(s, c) == Len(s) > 0 /\ s[Len(s)] = c

\* str.startswith(p)
startswith(s, p) == Len(p) <= Len(s) /\ SubSeq(s, 1, Len(p)) = p

\* str.rindex(c): the 0-based position of the last c, -1 for ValueError
rindex(s, c) ==
    IF \E i \in 1..Len(s) : s[i] = c
    THEN (CHOOSE i \in 1..Len(s) : s[i] = c /\ \A j \in (i + 1)..Len(s) : s[j] # c) - 1
    ELSE -1

\* s[:pos]
SliceTo(s, pos) == SubSeq(s, 1, pos)

\* s[n:]
SliceFrom(s, n) == SubSeq(s, n + 1, Len(s))

\* ------------------------------------------------ Python dict operations
\* key in d
DictHas(d, k) == \E i \in 1..Len(d) : d[i][1] = k

\* d[key]
DictGet(d, k) == d[CHOOSE i \in 1..Len(d) : d[i][1] = k][2]

\* the keys of d
DictKeys(d) == {d[i][1] : i \in 1..Len(d)}

\* a dict assignment that forgets the value (faulty variant)
DictSet_dropsValue(d, k, v) ==
    IF DictHas(d, k) THEN d ELSE Append(d, <<k, 1>>)

\* d[key] = value
DictSet(d, k, v) ==
    IF DictHas(d, k)
    THEN [i \in 1..Len(d) |-> IF d[i][1] = k THEN <<k, v>> ELSE d[i]]
    ELSE Append(d, <<k, v>>)

\* -------------------------------------------------------------- the heap
\* h.d[a] is the dict object at address a, h.s[a] the set object at a.
EmptyHeap == [d |-> [a \in Addr |-> <<>>], s |-> [a \in Addr |-> {}]]

\* Outcome of a statement sequence: the heap it leaves and the exception
\* it raised ("none" when it returned normally).
Ok(h) == [h |-> h, exc |-> "none"]
Raise(h, e) == [h |-> h, exc |-> e]

\* What an environment object holds: its _items and its _namespaces.
View(h, e) == [items |-> h.d[e.items], ns |-> h.s[e.ns]]

\* ------------------------------------------------------ class Base (Env2)
\* Base(): a new object at address a with an empty dict and an empty set
NewBase(h, a) ==
    [h EXCEPT !.d[a] = <<>>, !.s[a] = {}]

\* the reference held by a variable to the object allocated at address a
RefAt(a) == [items |-> a, ns |-> a]

\* __contains__
contains(h, e, key) == DictHas(h.d[e.items], key)

\* __getitem__: the value, or "KeyError"
getitem(h, e, key) ==
    IF DictHas(h.d[e.items], key) THEN DictGet(h.d[e.items], key) ELSE "KeyError"

\* contains_namespace
contains_namespace(h, e, namespace0) ==
    LET namespace == IF endswith(namespace0, Dot)
                     THEN SliceTo(namespace0, Len(namespace0) - 1)
                     ELSE namespace0
    IN  namespace \in h.s[e.ns]

\* add_namespace that does not declare the parents (faulty variant)
add_namespace_noParents(h, e, namespace0, exist_ok) ==
    LET namespace == IF endswith(namespace0, Dot)
                     THEN SliceTo(namespace0, Len(namespace0) - 1)
                     ELSE namespace0
    IN  IF namespace = <<>> THEN Raise(h, "AssertionError")
        ELSE IF DictHas(h.d[e.items], namespace) THEN Raise(h, "Collision")
        ELSE IF ~exist_ok /\ namespace \in h.s[e.ns] THEN Raise(h, "Collision")
        ELSE Ok([h EXCEPT !.s[e.ns] = @ \cup {namespace}])

\* add_namespace: in place; the parents are declared first, by recursion
RECURSIVE add_namespace(_, _, _, _)
add_namespace(h, e, namespace0, exist_ok) ==
    LET namespace == IF endswith(namespace0, Dot)
                     THEN SliceTo(namespace0, Len(namespace0) - 1)
                     ELSE namespace0
        pos == rindex(namespace, Dot)
    IN  IF namespace = <<>> THEN Raise(h, "AssertionError")
        ELSE IF DictHas(h.d[e.items], namespace) THEN Raise(h, "Collision")
        ELSE IF ~exist_ok /\ namespace \in h.s[e.ns] THEN Raise(h, "Collision")
        ELSE LET r == IF pos = -1 THEN Ok(h)
                      ELSE IF ~(pos > 0 /\ pos < Len(namespace) - 1)
                           THEN Raise(h, "AssertionError")
                           ELSE add_namespace(h, e, SliceTo(namespace, pos), TRUE)
             IN  IF r.exc # "none" THEN r
                 ELSE Ok([r.h EXCEPT !.s[e.ns] = @ \cup {namespace}])

\* __setitem__: in place
setitem(h, e, key, value) ==
    LET pos == rindex(key, Dot)
    IN  IF endswith(key, Dot) THEN Raise(h, "AssertionError")
        ELSE IF DictHas(h.d[e.items], key) \/ key \in h.s[e.ns]
             THEN Raise(h, "Collision")
        ELSE LET r == IF pos = -1 THEN Ok(h)
                      ELSE IF ~(pos > 0 /\ pos < Len(key) - 1)
                           THEN Raise(h, "AssertionError")
                           ELSE add_namespace(h, e, SliceTo(key, pos), TRUE)
             IN  IF r.exc # "none" THEN r
                 ELSE Ok([r.h EXCEPT !.d[e.items] = DictSet(@, key, value)])

\* "for k in bindings: ans[k] = bindings[k]", stopping at the first exception
RECURSIVE SetAll(_, _, _)
SetAll(h, e, pairs) ==
    IF pairs = <<>> THEN Ok(h)
    ELSE LET r == setitem(h, e, Head(pairs)[1], Head(pairs)[2])
         IN  IF r.exc # "none" THEN r ELSE SetAll(r.h, e, Tail(pairs))

\* __init__(bindings): a new object at address a, filled from a dict
BaseInit(h, a, bindings) == SetAll(NewBase(h, a), RefAt(a), bindings)

\* The outcome of a method that returns an environment.
Returns(r, ans) == [h |-> r.h, exc |-> r.exc, ans |-> ans]

\* "ans._namespaces = <a new set>": the set ans owned so far is dropped and
\* the new set object takes its address.
AssignNewSet(h, ans, set) == [h EXCEPT !.s[ans.ns] = set]

\* Predicates given to filter, by name.
Preds == {"all", "none", "isOne", "topLevel"}
Pred(pred, k, v) ==
    CASE pred = "all" -> TRUE
      [] pred = "none" -> FALSE
      [] pred = "isOne" -> v = 1
      [] pred = "topLevel" -> rindex(k, Dot) = -1

\* Functions given to map, by name.
Fns == {"swap", "byKey"}
Fn(fn, k, v) ==
    CASE fn = "swap" -> 3 - v
      [] fn = "byKey" -> IF rindex(k, Dot) = -1 THEN 1 ELSE 2

\* bind: a copy of self, at address a, with one more binding
bind(h, self, key, value, a) ==
    LET ans == RefAt(a)
        r0 == BaseInit(h, a, h.d[self.items])
    IN  IF r0.exc # "none" THEN Returns(r0, ans)
        ELSE Returns(setitem(AssignNewSet(r0.h, ans, r0.h.s[self.ns]), ans, key, value),
                     ans)

\* the bindings below `namespace` (which ends with the separator), re-rooted
Entered(items, namespace) ==
    LET below == SelectSeq(items, LAMBDA p : startswith(p[1], namespace))
    IN  [i \in 1..Len(below) |-> <<SliceFrom(below[i][1], Len(namespace)), below[i][2]>>]

\* enter_namespace that does not re-root the empty sub-namespaces (faulty variant)
enter_namespace_keysOnly(h, self, namespace0, a) ==
    LET namespace == IF ~endswith(namespace0, Dot) THEN namespace0 \o <<Dot>>
                     ELSE namespace0
        ans == RefAt(a)
    IN  IF ~contains_namespace(h, self, namespace0)
        THEN Returns(Raise(h, "KeyError"), ans)
        ELSE Returns(SetAll(NewBase(h, a), ans, Entered(h.d[self.items], namespace)), ans)

\* enter_namespace
enter_namespace(h, self, namespace0, a) ==
    LET namespace == IF ~endswith(namespace0, Dot) THEN namespace0 \o <<Dot>>
                     ELSE namespace0
        ans == RefAt(a)
        r == SetAll(NewBase(h, a), ans, Entered(h.d[self.items], namespace))
        sub == {SliceFrom(ns, Len(namespace)) :
                    ns \in {x \in r.h.s[self.ns] : startswith(x, namespace)}}
    IN  IF ~contains_namespace(h, self, namespace0)
        THEN Returns(Raise(h, "KeyError"), ans)
        ELSE IF r.exc # "none" THEN Returns(r, ans)
        ELSE Returns(Ok([r.h EXCEPT !.s[ans.ns] = @ \cup sub]), ans)

\* the bindings with fn applied to each value
Mapped(items, fn) ==
    [i \in 1..Len(items) |-> <<items[i][1], Fn(fn, items[i][1], items[i][2])>>]

\* map whose result shares the receiver's set of namespaces (faulty variant)
map_sharedNamespaces(h, self, fn, a) ==
    LET r == SetAll(NewBase(h, a), RefAt(a), Mapped(h.d[self.items], fn))
    IN  Returns(r, [items |-> a, ns |-> self.ns])

\* map
map(h, self, fn, a) ==
    LET ans == RefAt(a)
        r == SetAll(NewBase(h, a), ans, Mapped(h.d[self.items], fn))
    IN  IF r.exc # "none" THEN Returns(r, ans)
        ELSE Returns(Ok(AssignNewSet(r.h, ans, r.h.s[self.ns])), ans)

\* filter that keeps the namespaces whatever the flag says (faulty variant)
filter_alwaysKeeps(h, self, pred, keep_empty_namespaces, a) ==
    LET ans == RefAt(a)
        kept == SelectSeq(h.d[self.items], LAMBDA p : Pred(pred, p[1], p[2]))
        r == SetAll(NewBase(h, a), ans, kept)
    IN  IF r.exc # "none" THEN Returns(r, ans)
        ELSE Returns(Ok(AssignNewSet(r.h, ans, r.h.s[self.ns])), ans)

\* filter
filter(h, self, pred, keep_empty_namespaces, a) ==
    LET ans == RefAt(a)
        kept == SelectSeq(h.d[self.items], LAMBDA p : Pred(pred, p[1], p[2]))
        r == SetAll(NewBase(h, a), ans, kept)
    IN  IF r.exc # "none" THEN Returns(r, ans)
        ELSE IF keep_empty_namespaces
             THEN Returns(Ok(AssignNewSet(r.h, ans, r.h.s[self.ns])), ans)
             ELSE Returns(r, ans)

\* merge that never looks at the namespaces (faulty variant)
merge_noDisjointCheck(h, self, rhs, disjoint_namespaces, a) ==
    LET ans == RefAt(a)
        r1 == SetAll(NewBase(h, a), ans, h.d[self.items])
        r2 == SetAll(r1.h, ans, r1.h.d[rhs.items])
    IN  IF r1.exc # "none" THEN Returns(r1, ans)
        ELSE IF r2.exc # "none" THEN Returns(r2, ans)
        ELSE Returns(Ok(AssignNewSet(r2.h, ans,
                                     r2.h.s[self.ns] \cup r2.h.s[rhs.ns])), ans)

\* merge in which the bindings of rhs replace those of self (faulty variant)
merge_overwrites(h, self, rhs, disjoint_namespaces, a) ==
    LET ans == RefAt(a)
        common == h.s[self.ns] \cap h.s[rhs.ns]
        both == h.d[self.items] \o
                SelectSeq(h.d[rhs.items], LAMBDA p : ~DictHas(h.d[self.items], p[1]))
        r == SetAll(NewBase(h, a), ans, both)
    IN  IF disjoint_namespaces /\ common # {}
        THEN Returns(Raise(h, "Collision"), ans)
        ELSE IF r.exc # "none" THEN Returns(r, ans)
        ELSE Returns(Ok(AssignNewSet(r.h, ans, r.h.s[self.ns] \cup r.h.s[rhs.ns])), ans)

\* merge
merge(h, self, rhs, disjoint_namespaces, a) ==
    LET ans == RefAt(a)
        common == h.s[self.ns] \cap h.s[rhs.ns]
        r1 == SetAll(NewBase(h, a), ans, h.d[self.items])
        r2 == SetAll(r1.h, ans, r1.h.d[rhs.items])
    IN  IF disjoint_namespaces /\ common # {}
        THEN Returns(Raise(h, "Collision"), ans)
        ELSE IF r1.exc # "none" THEN Returns(r1, ans)
        ELSE IF r2.exc # "none" THEN Returns(r2, ans)
        ELSE Returns(Ok(AssignNewSet(r2.h, ans,
                                     r2.h.s[self.ns] \cup r2.h.s[rhs.ns])), ans)

\* ------------------------------------------------ the calling program
\* The caller holds one environment in its variable x.  A call either
\* changes x in place (x[key] = value, x.add_namespace) or returns a new
\* environment, held in ret until the caller stores it in x, merges it
\* with x, changes it, or drops it.
Null == [items |-> 0, ns |-> 0]
NoView == [items |-> <<>>, ns |-> {"-"}]

ViewOrNone(h, e) == IF e = Null THEN NoView ELSE View(h, e)

\* Addresses are not observable: after each step the objects still reached
\* from x and ret are renumbered in the order x and ret reach them, and the
\* unreachable ones are dropped.
Collect(h, ex, er) ==
    LET R == SelectSeq(<<ex.items, ex.ns, er.items, er.ns>>, LAMBDA a : a # 0)
        used == {R[i] : i \in 1..Len(R)}
        first == [a \in used |-> CHOOSE i \in 1..Len(R) :
                                    R[i] = a /\ \A j \in 1..(i - 1) : R[j] # a]
        rank == [a \in used \cup {0} |->
                    IF a = 0 THEN 0
                    ELSE Cardinality({R[j] : j \in 1..(first[a] - 1)}) + 1]
        from == [n \in 1..Cardinality(used) |-> CHOOSE a \in used : rank[a] = n]
        dicts == {ex.items, er.items}
        sets == {ex.ns, er.ns}
    IN  [x |-> [items |-> rank[ex.items], ns |-> rank[ex.ns]],
         ret |-> [items |-> rank[er.items], ns |-> rank[er.ns]],
         heap |-> [d |-> [n \in Addr |-> IF n \in DOMAIN from /\ from[n] \in dicts
                                         THEN h.d[from[n]] ELSE <<>>],
                   s |-> [n \in Addr |-> IF n \in DOMAIN from /\ from[n] \in sets
                                         THEN h.s[from[n]] ELSE {}]]]

\* An address neither x nor ret reaches.
Fresh(ex, er) ==
    CHOOSE a \in Addr : a \notin {ex.items, ex.ns, er.items, er.ns}

VARIABLES
    x,       \* the environment object the caller's variable refers to
    ret,     \* the environment object the last call returned, or Null
    heap,    \* the dict and set objects
    last,    \* the last call: method, arguments, exception, operands before/after
    tree,    \* the expression the parser built (Expr nodes)
    types,   \* types[path]: the _type slot of the node at path, or None
    call,    \* the last call on a node: method, node, arguments, outcome
    frames,  \* the TypeEnv / Env objects: frames[f] is the frame at address f
    look     \* the last call on a frame: constructor or lookup, and outcome

envVars == <<x, ret, heap, last>>
exprVars == <<tree, types, call>>
frameVars == <<frames, look>>
vars == <<x, ret, heap, last, tree, types, call, frames, look>>

NoCall == [op |-> "ready", key |-> <<>>, value |-> 0, flag |-> FALSE, arg |-> "",
           exc |-> "none", recv |-> NoView, other |-> NoView,
           recvAfter |-> NoView, otherAfter |-> NoView]

\* The caller keeps x within MaxItems bindings and MaxNs namespaces.
Fits(h, e) == Len(h.d[e.items]) <= MaxItems /\ Cardinality(h.s[e.ns]) <= MaxNs

\* Dicts given to the constructor: none, one or two bindings.
Bindings ==
    {<<>>}
    \cup {<<<<k, v>>>> : k \in Names, v \in Values}
    \cup {<<<<p[1], 1>>, <<p[2], 2>>>> : p \in {q \in Names \X Names : q[1] # q[2]}}

\* One empty environment, Base().
InitEnv ==
    /\ x = RefAt(1)
    /\ ret = Null
    /\ heap = EmptyHeap
    /\ last = NoCall

Ready == last.op = "ready"
Returned == last.op # "ready"

\* The end of a call on `self` (x or ret) with `rhs` as the other operand
\* (or Null): the result, if any, becomes ret.
Return(r, self, rhs, info) ==
    LET er == IF r.exc = "none" THEN r.ans ELSE Null
        c == Collect(r.h, x, er)
    IN  /\ x' = c.x
        /\ ret' = c.ret
        /\ heap' = c.heap
        /\ last' = [info EXCEPT !.exc = r.exc,
                                !.recv = ViewOrNone(heap, self),
                                !.other = ViewOrNone(heap, rhs),
                                !.recvAfter = ViewOrNone(r.h, self),
                                !.otherAfter = ViewOrNone(r.h, rhs)]
        /\ UNCHANGED <<exprVars, frameVars>>

\* The end of an in-place call on x.
ReturnInPlace(r, info) ==
    LET c == Collect(r.h, x, Null)
    IN  /\ Fits(r.h, x)
        /\ x' = c.x
        /\ ret' = c.ret
        /\ heap' = c.heap
        /\ last' = [info EXCEPT !.exc = r.exc, !.recv = View(heap, x),
                                !.recvAfter = View(r.h, x)]
        /\ UNCHANGED <<exprVars, frameVars>>

\* Base(bindings)
New(bindings) ==
    /\ Ready
    /\ Return(Returns(BaseInit(heap, Fresh(x, ret), bindings), RefAt(Fresh(x, ret))),
              Null, Null, [NoCall EXCEPT !.op = "new"])

\* x[key] = value
Set(key, value) ==
    /\ Ready
    /\ ReturnInPlace(setitem(heap, x, key, value),
                     [NoCall EXCEPT !.op = "set", !.key = key, !.value = value])

\* x.add_namespace(namespace, exist_ok)
AddNamespace(namespace, exist_ok) ==
    /\ Ready
    /\ ReturnInPlace(add_namespace(heap, x, namespace, exist_ok),
                     [NoCall EXCEPT !.op = "add_namespace", !.key = namespace,
                                    !.flag = exist_ok])

\* x.bind(key, value)
Bind(key, value) ==
    /\ Ready
    /\ Return(bind(heap, x, key, value, Fresh(x, ret)), x, Null,
              [NoCall EXCEPT !.op = "bind", !.key = key, !.value = value])

\* x.enter_namespace(namespace)
EnterNamespace(namespace) ==
    /\ Ready
    /\ Return(enter_namespace(heap, x, namespace, Fresh(x, ret)), x, Null,
              [NoCall EXCEPT !.op = "enter_namespace", !.key = namespace])

\* x.map(fn)
Map(fn) ==
    /\ Ready
    /\ Return(map(heap, x, fn, Fresh(x, ret)), x, Null,
              [NoCall EXCEPT !.op = "map", !.arg = fn])

\* x.filter(pred, keep_empty_namespaces)
Filter(pred, keep_empty_namespaces) ==
    /\ Ready
    /\ Return(filter(heap, x, pred, keep_empty_namespaces, Fresh(x, ret)), x, Null,
              [NoCall EXCEPT !.op = "filter", !.arg = pred,
                             !.flag = keep_empty_namespaces])

\* The calls whose result the caller may go on to use as an operand.
Makers == {"new", "bind", "enter_namespace", "map", "filter"}

\* x.merge(ret, d), ret.merge(x, d) or x.merge(x, d): the result replaces ret
Merge(order, disjoint_namespaces) ==
    LET self == IF order = "ret,x" THEN ret ELSE x
        rhs == IF order = "x,ret" THEN ret ELSE x
    IN  /\ IF order = "x,x" THEN Ready
           ELSE last.op \in Makers /\ ret # Null
        /\ Return(merge(heap, self, rhs, disjoint_namespaces, Fresh(x, ret)), self, rhs,
                  [NoCall EXCEPT !.op = "merge", !.arg = order,
                                 !.flag = disjoint_namespaces])

\* ret[key] = value, after which the caller drops ret
ChangeReturned(key, value) ==
    LET r == setitem(heap, ret, key, value)
        c == Collect(r.h, x, Null)
    IN  /\ last.op \in Makers \cup {"merge"} /\ ret # Null
        /\ x' = c.x
        /\ ret' = c.ret
        /\ heap' = c.heap
        /\ last' = [NoCall EXCEPT !.op = "change_returned", !.exc = r.exc,
                                  !.recv = View(heap, ret), !.other = View(heap, x),
                                  !.otherAfter = View(r.h, x)]
        /\ UNCHANGED <<exprVars, frameVars>>

\* x = ret
Store ==
    LET c == Collect(heap, ret, Null)
    IN  /\ Returned /\ ret # Null
        /\ Fits(heap, ret)
        /\ x' = c.x
        /\ ret' = c.ret
        /\ heap' = c.heap
        /\ last' = NoCall
        /\ UNCHANGED <<exprVars, frameVars>>

\* The caller drops the result, or handles the exception, and goes on.
Resume ==
    LET c == Collect(heap, x, Null)
    IN  /\ Returned
        /\ x' = c.x
        /\ ret' = c.ret
        /\ heap' = c.heap
        /\ last' = NoCall
        /\ UNCHANGED <<exprVars, frameVars>>

NextEnv ==
    \/ \E bindings \in Bindings : New(bindings)
    \/ \E key \in Names \cup DottedNames, value \in Values : Set(key, value)
    \/ \E namespace \in Names \cup DottedNames, exist_ok \in BOOLEAN :
            AddNamespace(namespace, exist_ok)
    \/ \E key \in Names \cup DottedNames, value \in Values : Bind(key, value)
    \/ \E namespace \in Names \cup DottedNames : EnterNamespace(namespace)
    \/ \E fn \in Fns : Map(fn)
    \/ \E pred \in Preds, keep \in BOOLEAN : Filter(pred, keep)
    \/ \E order \in {"x,ret", "ret,x", "x,x"}, disjoint \in BOOLEAN : Merge(order, disjoint)
    \/ \E key \in NamesOfDepth(2) : ChangeReturned(key, 1)
    \/ Store
    \/ Resume


\* ------------------------------------------- claims on class Base (Env2)
\* The environments alive in a state: the caller's, and the returned one.
LiveViews == {View(heap, x)} \cup (IF ret = Null THEN {} ELSE {View(heap, ret)})

\* A name of non-empty, dot-free segments joined by single dots.
WellFormed(k) ==
    /\ Len(k) > 0
    /\ k[1] # Dot
    /\ k[Len(k)] # Dot
    /\ \A i \in 1..(Len(k) - 1) : ~(k[i] = Dot /\ k[i + 1] = Dot)

\* The proper dotted prefixes of a name: "a" and "a.b" for "a.b.c".
Ancestors(k) == {SubSeq(k, 1, i - 1) : i \in {j \in 1..Len(k) : k[j] = Dot}}

\* The bindings of a view as a set of (key, value) pairs.
Pairs(v) == {v.items[i] : i \in 1..Len(v.items)}

\* Some key is bound in both, or a key of one is a proper dotted prefix of
\* a key of the other.
KeyClash(A, B) ==
    \E k \in DictKeys(A.items), m \in DictKeys(B.items) :
        k = m \/ k \in Ancestors(m) \/ m \in Ancestors(k)

SharedKey(A, B) == DictKeys(A.items) \cap DictKeys(B.items) # {}

\* C1 (as claimed): in no environment is a name both a bound key and a
\* declared namespace.
C1_NoKeyIsNamespace ==
    \A v \in LiveViews : DictKeys(v.items) \cap v.ns = {}

\* C2 (as claimed, read with the keys of invariant (a) and with its own
\* second half): bind of any well-formed key that is neither bound nor a
\* declared namespace succeeds and the result maps the key to the value;
\* bind of a key that is bound or is a declared namespace fails with
\* Collision.
C2_BindAnyUnboundKey ==
    last.op = "bind" =>
        /\ ( /\ WellFormed(last.key)
             /\ ~DictHas(last.recv.items, last.key)
             /\ last.key \notin last.recv.ns ) =>
                /\ last.exc = "none"
                /\ getitem(heap, ret, last.key) = last.value
        /\ (DictHas(last.recv.items, last.key) \/ last.key \in last.recv.ns) =>
                last.exc = "Collision"

\* C2 (amended): bind of a well-formed key that is neither bound nor a
\* declared namespace, and none of whose proper dotted prefixes is bound,
\* succeeds and the result maps the key to the value; bind of a key that is
\* bound or is a declared namespace fails with Collision.
C2_BindRoundTrip ==
    last.op = "bind" =>
        /\ ( /\ WellFormed(last.key)
             /\ ~DictHas(last.recv.items, last.key)
             /\ last.key \notin last.recv.ns
             /\ Ancestors(last.key) \cap DictKeys(last.recv.items) = {} ) =>
                /\ last.exc = "none"
                /\ getitem(heap, ret, last.key) = last.value
        /\ (DictHas(last.recv.items, last.key) \/ last.key \in last.recv.ns) =>
                last.exc = "Collision"

\* C2 (witness): a bind of a new key with value 2 to a non-empty
\* environment succeeded and the result maps the key to 2.
C2_Witness ==
    /\ last.op = "bind" /\ last.exc = "none" /\ last.value = 2
    /\ last.recv.items # <<>>
    /\ ret # Null /\ getitem(heap, ret, last.key) = 2

CopyOps == {"bind", "enter_namespace", "map", "filter", "merge"}

\* C3: bind, merge, filter, map and enter_namespace leave the receiver and
\* the other operand as they were, whether they return or raise; the
\* environment returned shares no dict and no set with the caller's; and an
\* in-place change of the returned environment leaves the caller's alone.
C3_CopyOnWrite ==
    /\ last.op \in CopyOps =>
            /\ last.recvAfter = last.recv
            /\ last.otherAfter = last.other
    /\ ret # Null => ret.items # x.items /\ ret.ns # x.ns
    /\ last.op = "change_returned" => last.otherAfter = last.other

\* C3 (witness): a returned environment with the bindings' keys and the
\* namespaces of the caller's non-empty environment (a map or a filter of it)
\* was changed in place.
C3_Witness ==
    /\ last.op = "change_returned" /\ last.exc = "none"
    /\ last.other.items # <<>>
    /\ DictKeys(last.recv.items) = DictKeys(last.other.items)
    /\ last.recv.ns = last.other.ns /\ last.recv.ns # {}

\* C4 (as claimed): merge with disjoint_namespaces fails with Collision
\* exactly when the two namespace sets have a common element.
C4_CollisionIffSharedNamespace ==
    (last.op = "merge" /\ last.flag) =>
        /\ (last.exc = "Collision") <=> (last.recv.ns \cap last.other.ns # {})
        /\ last.exc \in {"none", "Collision"}

\* C4 (amended): merge with disjoint_namespaces fails with Collision
\* whenever the two namespace sets have a common element, whatever the
\* keys; when they have none it fails with Collision exactly when some key
\* is bound in both or a key of one is a proper dotted prefix of a key of
\* the other, and succeeds otherwise.
C4_DisjointMerge ==
    (last.op = "merge" /\ last.flag) =>
        /\ last.recv.ns \cap last.other.ns # {} => last.exc = "Collision"
        /\ last.recv.ns \cap last.other.ns = {} =>
                ((last.exc = "Collision") <=> KeyClash(last.recv, last.other))
        /\ last.exc \in {"none", "Collision"}

\* C4 (witness): a merge with disjoint_namespaces of two environments that
\* share a namespace and no key raised Collision.
C4_Witness ==
    /\ last.op = "merge" /\ last.flag /\ last.exc = "Collision"
    /\ last.recv.ns \cap last.other.ns # {}
    /\ last.recv.items # <<>> /\ last.other.items # <<>>
    /\ ~KeyClash(last.recv, last.other)

\* C5 (as claimed): merge without disjoint_namespaces fails with Collision
\* only when some key is bound in both; otherwise it succeeds with the
\* union of the bindings and the union of the namespaces.
C5_CollisionOnlyOnSharedKey ==
    (last.op = "merge" /\ ~last.flag) =>
        /\ last.exc = "Collision" => SharedKey(last.recv, last.other)
        /\ ~SharedKey(last.recv, last.other) =>
                /\ last.exc = "none"
                /\ Pairs(View(heap, ret)) = Pairs(last.recv) \cup Pairs(last.other)
                /\ View(heap, ret).ns = last.recv.ns \cup last.other.ns

\* C5 (amended): merge without disjoint_namespaces fails with Collision
\* exactly when some key is bound in both or a key of one is a proper
\* dotted prefix of a key of the other; otherwise it succeeds with the
\* union of the bindings (the receiver's first) and the union of the
\* namespaces.
C5_SharedNamespaceMerge ==
    (last.op = "merge" /\ ~last.flag) =>
        /\ KeyClash(last.recv, last.other) => last.exc = "Collision"
        /\ ~KeyClash(last.recv, last.other) =>
                /\ last.exc = "none"
                /\ View(heap, ret).items = last.recv.items \o last.other.items
                /\ Pairs(View(heap, ret)) = Pairs(last.recv) \cup Pairs(last.other)
                /\ View(heap, ret).ns = last.recv.ns \cup last.other.ns

\* C5 (witness): a merge without disjoint_namespaces of two non-empty
\* environments that share a namespace succeeded.
C5_Witness ==
    /\ last.op = "merge" /\ ~last.flag /\ last.exc = "none"
    /\ last.recv.ns \cap last.other.ns # {}
    /\ last.recv.items # <<>> /\ last.other.items # <<>>
    /\ ret # Null /\ Len(View(heap, ret).items) = 2

\* The bindings of a view for which pred holds, in order.
Matching(v, pred) == SelectSeq(v.items, LAMBDA p : Pred(pred, p[1], p[2]))

\* C6 (as claimed): filter returns exactly the bindings for which pred
\* holds; with keep_empty_namespaces the namespaces of the receiver, without
\* it no namespace at all.
C6_FilterDropsNamespaces ==
    last.op = "filter" =>
        /\ last.exc = "none"
        /\ View(heap, ret).items = Matching(last.recv, last.arg)
        /\ View(heap, ret).ns = IF last.flag THEN last.recv.ns ELSE {}

\* C6 (amended): filter returns exactly the bindings for which pred holds;
\* with keep_empty_namespaces the namespaces of the receiver, without it
\* exactly the proper dotted prefixes of the keys that remain.
C6_Filter ==
    last.op = "filter" =>
        /\ last.exc = "none"
        /\ View(heap, ret).items = Matching(last.recv, last.arg)
        /\ View(heap, ret).ns =
                IF last.flag THEN last.recv.ns
                ELSE UNION {Ancestors(k) : k \in DictKeys(Matching(last.recv, last.arg))}

\* C6 (witness): a filter without keep_empty_namespaces kept a dotted key,
\* and with it the key's namespace, and dropped an empty namespace.
C6_Witness ==
    /\ last.op = "filter" /\ ~last.flag /\ last.exc = "none"
    /\ ret # Null
    /\ View(heap, ret).items # <<>>
    /\ View(heap, ret).ns # {}
    /\ last.recv.ns \ View(heap, ret).ns # {}

\* a namespace argument without its trailing separator
Stripped(n) == IF Len(n) > 0 /\ n[Len(n)] = Dot THEN SubSeq(n, 1, Len(n) - 1) ELSE n

\* C7: enter_namespace(n) raises KeyError when n is not a declared
\* namespace; otherwise the result binds k' to v exactly when the receiver
\* binds n.k' to v, and its namespaces are exactly the receiver's namespaces
\* below n with the prefix "n." removed.
C7_EnterNamespace ==
    last.op = "enter_namespace" =>
        LET n == Stripped(last.key)
            below(k) == Len(k) > Len(n) + 1 /\ SubSeq(k, 1, Len(n) + 1) = n \o <<Dot>>
            rest(k) == SubSeq(k, Len(n) + 2, Len(k))
        IN  IF n \notin last.recv.ns THEN last.exc = "KeyError"
            ELSE /\ last.exc = "none"
                 /\ Pairs(View(heap, ret)) =
                        {<<rest(p[1]), p[2]>> : p \in {q \in Pairs(last.recv) : below(q[1])}}
                 /\ Len(View(heap, ret).items) = Cardinality(Pairs(View(heap, ret)))
                 /\ View(heap, ret).ns = {rest(m) : m \in {q \in last.recv.ns : below(q)}}

\* C7 (witness): entering "a" in an environment that binds "a.b.a" gave an
\* environment that binds "b.a" to the same value and has namespace "b".
C7_Witness ==
    /\ last.op = "enter_namespace" /\ last.exc = "none"
    /\ last.key = <<"a">>
    /\ DictHas(last.recv.items, <<"a", Dot, "b", Dot, "a">>)
    /\ ret # Null
    /\ getitem(heap, ret, <<"b", Dot, "a">>) = DictGet(last.recv.items, <<"a", Dot, "b", Dot, "a">>)
    /\ <<"b">> \in View(heap, ret).ns

\* C8: in every environment every proper dotted prefix of a bound key and
\* of a declared namespace is a declared namespace.
C8_NamespaceClosure ==
    \A v \in LiveViews :
        \A k \in DictKeys(v.items) \cup v.ns : Ancestors(k) \subseteq v.ns

\* C8 (witness): add_namespace("a.b.") declared "a.b" and, with it, "a",
\* which was not declared before.
C8_Witness ==
    /\ last.op = "add_namespace" /\ last.exc = "none"
    /\ last.key = <<"a", Dot, "b", Dot>>
    /\ <<"a">> \notin last.recv.ns
    /\ contains_namespace(heap, x, <<"a">>)
    /\ contains_namespace(heap, x, <<"a", Dot, "b">>)

\* =================================================== WDL/Expr.py
\* WDL.Type values: a base type is a one-element sequence, T.Array(item) is
\* "Array" followed by the item type, T.Array(None) is <<"Array">>.
T_Boolean == <<"Boolean">>
T_Int == <<"Int">>
T_Float == <<"Float">>
T_String == <<"String">>
T_Array(item) == <<"Array">> \o item

\* the value None of an unset type slot (and of Array's item type)
None == <<>>

\* WDL.Type equality (==, !=)
TypeEq(a, b) == a = b

\* isinstance(t, T.Array)
IsArrayType(t) == Len(t) > 0 /\ t[1] = "Array"

\* T.Array.item_type
item_type(t) == Tail(t)

\* ------------------------------------------------------ expression nodes
\* A node: its class, its literal (Boolean True/False as 1/0), its name
\* (identifier, or function), and the nodes beneath it, in the order of
\* the constructor's arguments.
Node(kind, literal, name, children) ==
    [kind |-> kind, literal |-> literal, name |-> name, children |-> children]

Expr_Boolean(literal) == Node("Boolean", IF literal THEN 1 ELSE 0, "", <<>>)
Expr_Int(literal) == Node("Int", literal, "", <<>>)
Expr_Float(literal) == Node("Float", literal, "", <<>>)
Expr_Array(items) == Node("Array", 0, "", items)
Expr_IfThenElse(condition, consequent, alternative) ==
    Node("IfThenElse", 0, "", <<condition, consequent, alternative>>)
Expr_Apply(function, arguments) == Node("Apply", 0, function, arguments)
Expr_Ident(identifier) == Node("Ident", 0, identifier, <<>>)

\* A node of a tree is named by its path from the root: child indices.
RECURSIVE At(_, _)
At(t, path) == IF path = <<>> THEN t ELSE At(t.children[Head(path)], Tail(path))

RECURSIVE Paths(_)
Paths(t) ==
    {<<>>} \cup UNION {{<<i>> \o q : q \in Paths(t.children[i])} : i \in 1..Len(t.children)}

\* ------------------------------------------------------ TypeEnv and Env
\* An immutable linked list of frames: the sequence of their bindings from
\* the frame itself to the root; a binding is <<name, payload>> or None.
\* a lookup in which the frame nearest to the root wins (faulty variant)
RECURSIVE Lookup_rootFirst(_, _)
Lookup_rootFirst(env, id) ==
    IF Tail(env) # <<>> /\ Lookup_rootFirst(Tail(env), id).exc = "none"
    THEN Lookup_rootFirst(Tail(env), id)
    ELSE IF Head(env) # None /\ id = Head(env)[1]
         THEN [exc |-> "none", payload |-> Head(env)[2]]
    ELSE [exc |-> "KeyError", payload |-> None]

RECURSIVE Lookup(_, _)
Lookup(env, id) ==
    IF Head(env) # None /\ id = Head(env)[1] THEN [exc |-> "none", payload |-> Head(env)[2]]
    ELSE IF Tail(env) # <<>> THEN Lookup(Tail(env), id)
    ELSE [exc |-> "KeyError", payload |-> None]

\* TypeEnv.__getitem__
TypeEnv_getitem(type_env, id) == Lookup(type_env, id)

\* Env.__getitem__
Env_getitem(env, id) == Lookup(env, id)

\* ------------------------------------------------------ standard library
\* The table _stdlib: each function's number of arguments and return type.
Stdlib == [f |-> [arity |-> 1, ret |-> T_Int], g |-> [arity |-> 1, ret |-> T_Float]]

\* _Function.infer_type(expr)
Function_infer_type(function, arguments) ==
    IF Len(arguments) # Stdlib[function].arity
    THEN [exc |-> "WrongArity", type |-> None]
    ELSE [exc |-> "none", type |-> Stdlib[function].ret]

\* ------------------------------------------------------ type inference
Failed(slot, exc) == [slot |-> slot, exc |-> exc, type |-> None]
Inferred(slot, type) == [slot |-> slot, exc |-> "none", type |-> type]

\* Base.typecheck
Base_typecheck(slot, path, expected) ==
    IF slot[path] = None THEN "AssertionError"
    ELSE IF ~TypeEq(slot[path], expected) THEN "StaticTypeMismatch"
    ELSE "none"

\* Int.typecheck
Int_typecheck(slot, path, expected) ==
    IF TypeEq(expected, T_Float) THEN "none" ELSE Base_typecheck(slot, path, expected)

\* Array.typecheck
Array_typecheck(slot, t, path, expected) ==
    IF Len(At(t, path).children) = 0 /\ IsArrayType(expected) THEN "none"
    ELSE Base_typecheck(slot, path, expected)

\* node.typecheck(expected), by the class of the node: the exception raised
typecheck(slot, t, path, expected) ==
    CASE At(t, path).kind = "Int" -> Int_typecheck(slot, path, expected)
      [] At(t, path).kind = "Array" -> Array_typecheck(slot, t, path, expected)
      [] OTHER -> Base_typecheck(slot, path, expected)

RECURSIVE infer_type(_, _, _, _)
RECURSIVE infer_all(_, _, _, _, _)
RECURSIVE infer_type_impl(_, _, _, _)

\* "for item in items: item.infer_type(type_env)" from child i on
infer_all(slot, t, path, i, type_env) ==
    IF i > Len(At(t, path).children) THEN Inferred(slot, None)
    ELSE LET r == infer_type(slot, t, path \o <<i>>, type_env)
         IN  IF r.exc # "none" THEN r ELSE infer_all(r.slot, t, path, i + 1, type_env)

\* IfThenElse._infer_type
IfThenElse_infer_type(slot, t, path, type_env) ==
    LET condition == path \o <<1>>
        consequent == path \o <<2>>
        alternative == path \o <<3>>
        r1 == infer_type(slot, t, condition, type_env)
        r2 == infer_type(r1.slot, t, consequent, type_env)
        r3 == infer_type(r2.slot, t, alternative, type_env)
        self_type == IF TypeEq(r2.slot[consequent], T_Int)
                        /\ TypeEq(r3.slot[alternative], T_Float)
                     THEN T_Float ELSE r2.slot[consequent]
    IN  IF r1.exc # "none" THEN Failed(r1.slot, r1.exc)
        ELSE IF ~TypeEq(r1.slot[condition], T_Boolean)
             THEN Failed(r1.slot, "StaticTypeMismatch")
        ELSE IF r2.exc # "none" THEN Failed(r2.slot, r2.exc)
        ELSE IF r3.exc # "none" THEN Failed(r3.slot, r3.exc)
        ELSE IF typecheck(r3.slot, t, alternative, self_type) # "none"
             THEN Failed(r3.slot, typecheck(r3.slot, t, alternative, self_type))
        ELSE Inferred(r3.slot, self_type)

\* Array._infer_type
Array_infer_type(slot, t, path, type_env) ==
    LET n == Len(At(t, path).children)
        r == infer_all(slot, t, path, 1, type_env)
        first == r.slot[path \o <<1>>]
        item_type1 == IF TypeEq(first, T_Int)
                         /\ \E i \in 1..n : TypeEq(r.slot[path \o <<i>>], T_Float)
                      THEN T_Float ELSE first
        bad == {i \in 1..n : typecheck(r.slot, t, path \o <<i>>, item_type1) # "none"}
    IN  IF n = 0 THEN Inferred(slot, T_Array(None))
        ELSE IF r.exc # "none" THEN Failed(r.slot, r.exc)
        ELSE IF bad # {} THEN Failed(r.slot, "StaticTypeMismatch")
        ELSE Inferred(r.slot, T_Array(item_type1))

\* Apply._infer_type
Apply_infer_type(slot, t, path, type_env) ==
    LET r == infer_all(slot, t, path, 1, type_env)
        f == Function_infer_type(At(t, path).name, At(t, path).children)
    IN  IF r.exc # "none" THEN Failed(r.slot, r.exc)
        ELSE IF f.exc # "none" THEN Failed(r.slot, f.exc)
        ELSE Inferred(r.slot, f.type)

\* Ident._infer_type
Ident_infer_type(slot, t, path, type_env) ==
    LET r == TypeEnv_getitem(type_env, At(t, path).name)
    IN  IF r.exc = "KeyError" THEN Failed(slot, "UnknownIdentifier")
        ELSE Inferred(slot, r.payload)

\* node._infer_type(type_env), by the class of the node
infer_type_impl(slot, t, path, type_env) ==
    CASE At(t, path).kind = "Boolean" -> Inferred(slot, T_Boolean)
      [] At(t, path).kind = "Int" -> Inferred(slot, T_Int)
      [] At(t, path).kind = "Float" -> Inferred(slot, T_Float)
      [] At(t, path).kind = "Array" -> Array_infer_type(slot, t, path, type_env)
      [] At(t, path).kind = "IfThenElse" -> IfThenElse_infer_type(slot, t, path, type_env)
      [] At(t, path).kind = "Apply" -> Apply_infer_type(slot, t, path, type_env)
      [] At(t, path).kind = "Ident" -> Ident_infer_type(slot, t, path, type_env)

\* infer_type without the assertion on the slot (faulty variant)
infer_type_reassigns(slot, t, path, type_env) ==
    LET r == infer_type_impl(slot, t, path, type_env)
    IN  IF r.exc # "none" THEN r
        ELSE Inferred([r.slot EXCEPT ![path] = r.type], r.type)

\* Base.infer_type: the slots afterwards and the exception raised
infer_type(slot, t, path, type_env) ==
    IF slot[path] # None THEN Failed(slot, "AssertionError")
    ELSE LET r == infer_type_impl(slot, t, path, type_env)
         IN  IF r.exc # "none" THEN r
             ELSE Inferred([r.slot EXCEPT ![path] = r.type], r.type)

\* Base.type (the property): the exception raised, and the type
type(slot, path) ==
    IF slot[path] = None THEN [exc |-> "AssertionError", type |-> None]
    ELSE [exc |-> "none", type |-> slot[path]]

\* ------------------------------------------------------------ evaluation
\* WDL.Value values: the WDL type, the Python value of a scalar (True and
\* False as 1 and 0) and the items of an array.
Value(type_, value, items) == [type |-> type_, value |-> value, items |-> items]
V_Boolean(value) == Value(T_Boolean, value, <<>>)
V_Int(value) == Value(T_Int, value, <<>>)
V_Float(value) == Value(T_Float, value, <<>>)
V_Array(type_, items) == Value(type_, 0, items)
NoValue == Value(None, 0, <<>>)

\* Value.coerce(desired_type)
coerce(v, desired_type) ==
    IF TypeEq(v.type, desired_type) THEN [exc |-> "none", value |-> v]
    ELSE IF TypeEq(v.type, T_Int) /\ TypeEq(desired_type, T_Float)
         THEN [exc |-> "none", value |-> V_Float(v.value)]
    ELSE [exc |-> "ValueError", value |-> NoValue]

\* Value.expect(desired_type)
expect(v, desired_type) == coerce(v, desired_type)

\* The outcome of an eval: the exception raised, the value returned and the
\* nodes whose eval was invoked, in order.
Raised(exc, trace) == [exc |-> exc, value |-> NoValue, trace |-> trace]
Evaluated(value, trace) == [exc |-> "none", value |-> value, trace |-> trace]

RECURSIVE eval(_, _, _, _)
RECURSIVE eval_items(_, _, _, _, _, _, _)

\* "[item.eval(env).coerce(item_type) for item in items]" from child i on;
\* with coercing = FALSE, the evaluation of the arguments of a function
eval_items(slot, t, path, i, env, coercing, acc) ==
    IF i > Len(At(t, path).children) THEN acc
    ELSE LET r == eval(slot, t, path \o <<i>>, env)
             c == IF coercing THEN coerce(r.value, item_type(slot[path]))
                  ELSE [exc |-> "none", value |-> r.value]
         IN  IF r.exc # "none" THEN Raised(r.exc, acc.trace \o r.trace)
             ELSE IF c.exc # "none" THEN Raised(c.exc, acc.trace \o r.trace)
             ELSE eval_items(slot, t, path, i + 1, env, coercing,
                             Evaluated(V_Array(acc.value.type,
                                               Append(acc.value.items, c.value)),
                                       acc.trace \o r.trace))

\* Array.eval
Array_eval(slot, t, path, env) ==
    IF type(slot, path).exc # "none" \/ ~IsArrayType(slot[path])
    THEN Raised("AssertionError", <<path>>)
    ELSE eval_items(slot, t, path, 1, env, TRUE,
                    Evaluated(V_Array(slot[path], <<>>), <<path>>))

\* IfThenElse.eval that evaluates both branches and picks one (faulty variant)
IfThenElse_eval_eager(slot, t, path, env) ==
    LET c == eval(slot, t, path \o <<1>>, env)
        b == expect(c.value, T_Boolean)
        r2 == eval(slot, t, path \o <<2>>, env)
        r3 == eval(slot, t, path \o <<3>>, env)
        ans == IF b.value.value # 0 THEN r2 ELSE r3
    IN  IF c.exc # "none" THEN Raised(c.exc, <<path>> \o c.trace)
        ELSE IF b.exc # "none" THEN Raised(b.exc, <<path>> \o c.trace)
        ELSE IF r2.exc # "none" THEN Raised(r2.exc, <<path>> \o c.trace \o r2.trace)
        ELSE [ans EXCEPT !.trace = <<path>> \o c.trace \o r2.trace \o r3.trace]

\* IfThenElse.eval
IfThenElse_eval(slot, t, path, env) ==
    LET c == eval(slot, t, path \o <<1>>, env)
        b == expect(c.value, T_Boolean)
        ans == IF b.value.value # 0 THEN eval(slot, t, path \o <<2>>, env)
               ELSE eval(slot, t, path \o <<3>>, env)
    IN  IF c.exc # "none" THEN Raised(c.exc, <<path>> \o c.trace)
        ELSE IF b.exc # "none" THEN Raised(b.exc, <<path>> \o c.trace)
        ELSE [ans EXCEPT !.trace = <<path>> \o c.trace \o @]

\* _Function.__call__(expr, env): the arguments are evaluated in order and
\* a value of the function's return type comes back
Function_call(slot, t, path, env) ==
    LET args == eval_items(slot, t, path, 1, env, FALSE,
                           Evaluated(V_Array(None, <<>>), <<path>>))
    IN  IF args.exc # "none" THEN args
        ELSE Evaluated(Value(Stdlib[At(t, path).name].ret, Len(args.value.items), <<>>),
                       args.trace)

\* Apply.eval
Apply_eval(slot, t, path, env) == Function_call(slot, t, path, env)

\* Ident.eval
Ident_eval(slot, t, path, env) ==
    LET r == Env_getitem(env, At(t, path).name)
    IN  IF r.exc = "KeyError" THEN Raised("UnknownIdentifier", <<path>>)
        ELSE Evaluated(r.payload, <<path>>)

\* node.eval(env), by the class of the node
eval(slot, t, path, env) ==
    CASE At(t, path).kind = "Boolean" -> Evaluated(V_Boolean(At(t, path).literal), <<path>>)
      [] At(t, path).kind = "Int" -> Evaluated(V_Int(At(t, path).literal), <<path>>)
      [] At(t, path).kind = "Float" -> Evaluated(V_Float(At(t, path).literal), <<path>>)
      [] At(t, path).kind = "Array" -> Array_eval(slot, t, path, env)
      [] At(t, path).kind = "IfThenElse" -> IfThenElse_eval(slot, t, path, env)
      [] At(t, path).kind = "Apply" -> Apply_eval(slot, t, path, env)
      [] At(t, path).kind = "Ident" -> Ident_eval(slot, t, path, env)

\* ------------------------------------------------ the inputs of the model
Leaves == {Expr_Boolean(TRUE), Expr_Boolean(FALSE), Expr_Int(1), Expr_Float(2),
           Expr_Ident("x")}
Conditions == {Expr_Boolean(TRUE), Expr_Boolean(FALSE), Expr_Ident("x"), Expr_Int(1)}
Branches == {Expr_Int(1), Expr_Float(2), Expr_Ident("x"), Expr_Boolean(TRUE)}
Numbers == {Expr_Int(1), Expr_Float(2)}

Conditionals ==
    {Expr_IfThenElse(c, a, b) : c \in Conditions, a \in Branches, b \in Branches}
Arrays ==
    {Expr_Array(<<>>)} \cup {Expr_Array(<<a>>) : a \in Branches}
    \cup {Expr_Array(<<a, b>>) : a \in Branches, b \in Branches}
Applications ==
    {Expr_Apply(f, <<>>) : f \in {"f", "g"}}
    \cup {Expr_Apply(f, <<a>>) : f \in {"f", "g"}, a \in Branches}
NumericConditionals ==
    {Expr_IfThenElse(Expr_Boolean(c), a, b) : c \in BOOLEAN, a \in Numbers, b \in Numbers}
Nested ==
    {Expr_Array(<<i, a>>) : i \in NumericConditionals, a \in Numbers}
    \cup {Expr_IfThenElse(Expr_Boolean(TRUE), i, a) : i \in NumericConditionals, a \in Numbers}

\* The expressions the parser may hand over.
Trees == Leaves \cup Conditionals \cup Arrays \cup Applications \cup Nested

\* Type environments: the root frame alone, one binding of x, a binding of
\* x shadowing another, an empty frame over a binding.
TypeEnvs ==
    {<<None>>, <<<<"x", T_Int>>>>, <<<<"x", T_Float>>>>, <<<<"x", T_Boolean>>>>,
     <<<<"x", T_Float>>, <<"x", T_Int>>>>, <<None, <<"x", T_Int>>>>}

\* Value environments.
Envs ==
    {<<None>>, <<<<"x", V_Int(3)>>>>, <<<<"x", V_Float(4)>>>>, <<<<"x", V_Boolean(1)>>>>,
     <<<<"x", V_Boolean(0)>>, <<"x", V_Int(3)>>>>}

\* Types a caller may expect of an expression.
ExpectedTypes ==
    {T_Boolean, T_Int, T_Float, T_String, T_Array(None), T_Array(T_Int), T_Array(T_Float)}

\* ------------------------------------------------ calls on the nodes
NoNodeCall == [op |-> "ready", path |-> <<>>, exc |-> "none", before |-> <<>>,
               expected |-> None, result |-> NoValue, trace |-> <<>>, env |-> <<None>>]

\* The parser built an expression; no node is typed yet.
InitExpr ==
    /\ tree \in Trees
    /\ types = [q \in Paths(tree) |-> None]
    /\ call = NoNodeCall

\* No expression under analysis.
IdleExpr ==
    /\ tree = Expr_Int(1)
    /\ types = [q \in Paths(tree) |-> None]
    /\ call = NoNodeCall

\* node.infer_type(type_env)
InferType(path, type_env) ==
    LET r == infer_type(types, tree, path, type_env)
    IN  /\ call.op = "ready"
        /\ types' = r.slot
        /\ call' = [NoNodeCall EXCEPT !.op = "infer_type", !.path = path, !.exc = r.exc,
                                      !.before = types]
        /\ UNCHANGED <<tree, envVars, frameVars>>

\* node.typecheck(expected)
Typecheck(path, expected) ==
    /\ call.op = "ready"
    /\ call' = [NoNodeCall EXCEPT !.op = "typecheck", !.path = path,
                                  !.exc = typecheck(types, tree, path, expected),
                                  !.before = types, !.expected = expected]
    /\ UNCHANGED <<tree, types, envVars, frameVars>>

\* node.eval(env)
Eval(path, env) ==
    LET r == eval(types, tree, path, env)
    IN  /\ call.op = "ready"
        /\ call' = [NoNodeCall EXCEPT !.op = "eval", !.path = path, !.exc = r.exc,
                                      !.before = types, !.result = r.value,
                                      !.trace = r.trace, !.env = env]
        /\ UNCHANGED <<tree, types, envVars, frameVars>>

\* node.type
ReadType(path) ==
    /\ call.op = "ready"
    /\ call' = [NoNodeCall EXCEPT !.op = "type", !.path = path,
                                  !.exc = type(types, path).exc, !.before = types,
                                  !.expected = type(types, path).type]
    /\ UNCHANGED <<tree, types, envVars, frameVars>>

\* The caller takes the result, or handles the exception, and goes on.
ResumeExpr ==
    /\ call.op # "ready"
    /\ call' = NoNodeCall
    /\ UNCHANGED <<tree, types, envVars, frameVars>>

NextExpr ==
    \/ \E path \in Paths(tree), type_env \in TypeEnvs : InferType(path, type_env)
    \/ \E path \in Paths(tree), expected \in ExpectedTypes : Typecheck(path, expected)
    \/ \E path \in Paths(tree), env \in Envs : Eval(path, env)
    \/ \E path \in Paths(tree) : ReadType(path)
    \/ ResumeExpr

\* ------------------------------------------------ claims on the nodes
\* C9: the type slot of a node is written at most once.  A call never
\* changes a slot that was set; typecheck, eval and a read of the type
\* change no slot; infer_type on a Typed node raises AssertionError and
\* changes nothing; a successful infer_type started from an unset slot and
\* set it; a failed infer_type leaves the node's own slot as it was (unset);
\* a read of the type of an Unanalyzed node raises AssertionError.
C9_TypeSlotWrittenOnce ==
    call.op # "ready" =>
        /\ \A p \in Paths(tree) : call.before[p] # None => types[p] = call.before[p]
        /\ call.op \in {"typecheck", "eval", "type"} => types = call.before
        /\ (call.op = "infer_type" /\ call.before[call.path] # None)
              => (call.exc = "AssertionError" /\ types = call.before)
        /\ (call.op = "infer_type" /\ call.exc = "none")
              => (call.before[call.path] = None /\ types[call.path] # None)
        /\ (call.op = "infer_type" /\ call.exc # "none")
              => types[call.path] = call.before[call.path]
        /\ (call.op = "infer_type" /\ call.exc # "none" /\ call.before[call.path] = None)
              => types[call.path] = None
        /\ (call.op = "type" /\ call.before[call.path] = None)
              => call.exc = "AssertionError"

\* A second infer_type on the root of a conditional that was typed Float.
C9_Witness ==
    /\ call.op = "infer_type"
    /\ call.path = <<>>
    /\ tree.kind = "IfThenElse"
    /\ call.before[<<>>] = T_Float
    /\ call.exc = "AssertionError"
    /\ types = call.before

\* A failed infer_type of a node whose first child was typed by the call.
C9_FailedWitness ==
    /\ call.op = "infer_type"
    /\ call.path = <<>>
    /\ call.exc = "StaticTypeMismatch"
    /\ call.before[<<1>>] = None
    /\ types[<<1>>] # None
    /\ types[<<>>] = None

\* C10: typecheck(expected) of a typed node succeeds when its type equals
\* expected, and whenever its type is Int and expected is Float, whatever
\* the class of the node; an Int-typed node checked against a type other
\* than Int and Float raises StaticTypeMismatch.
C10_IntWidensToFloat ==
    (call.op = "typecheck" /\ types[call.path] # None) =>
        /\ TypeEq(types[call.path], call.expected) => call.exc = "none"
        /\ (TypeEq(types[call.path], T_Int) /\ TypeEq(call.expected, T_Float))
              => call.exc = "none"
        /\ (TypeEq(types[call.path], T_Int) /\ call.expected \notin {T_Int, T_Float})
              => call.exc = "StaticTypeMismatch"

\* The positions of call.trace at which the eval of the node at q, or of a
\* node beneath it, was invoked.
Invoked(q) ==
    {i \in 1..Len(call.trace) :
        Len(call.trace[i]) >= Len(q) /\ SubSeq(call.trace[i], 1, Len(q)) = q}

\* C11: the eval of a conditional invokes the eval of the condition first
\* and then of exactly one branch: the consequent when the condition's
\* Boolean value is not false, the alternative when it is false.  The eval
\* of the other branch is never invoked, and the outcome (value, or
\* exception) is the selected branch's.  When the condition raises, no
\* branch is evaluated.
C11_ConditionalEvaluatesOneBranch ==
    (call.op = "eval" /\ At(tree, call.path).kind = "IfThenElse") =>
        LET p == call.path
            c == eval(call.before, tree, p \o <<1>>, call.env)
            sel == IF c.value.value # 0 THEN 2 ELSE 3
            s == eval(call.before, tree, p \o <<sel>>, call.env)
        IN  /\ Len(call.trace) >= 2
            /\ call.trace[1] = p
            /\ call.trace[2] = p \o <<1>>
            /\ (c.exc = "none" /\ TypeEq(c.value.type, T_Boolean)) =>
                    /\ call.trace = <<p>> \o c.trace \o s.trace
                    /\ Invoked(p \o <<sel>>) # {}
                    /\ Invoked(p \o <<5 - sel>>) = {}
                    /\ \A i \in Invoked(p \o <<1>>), j \in Invoked(p \o <<sel>>) : i < j
                    /\ call.exc = s.exc
                    /\ call.result = s.value
            /\ c.exc # "none" =>
                    /\ call.exc = c.exc
                    /\ Invoked(p \o <<2>>) = {} /\ Invoked(p \o <<3>>) = {}

\* C11 (witness): the condition x was bound to false; the eval of
\* "if x then 1 else 2.0" invoked the condition and the alternative only
\* and returned the alternative's Float.
C11_Witness ==
    /\ call.op = "eval" /\ call.path = <<>> /\ call.exc = "none"
    /\ tree = Expr_IfThenElse(Expr_Ident("x"), Expr_Int(1), Expr_Float(2))
    /\ Env_getitem(call.env, "x").payload = V_Boolean(0)
    /\ call.trace = << <<>>, <<1>>, <<3>> >>
    /\ call.result = V_Float(2)

\* An expression of Boolean, Int and Float literals, array literals and
\* conditionals only.
RECURSIVE Closed(_)
Closed(t) ==
    /\ t.kind \in {"Boolean", "Int", "Float", "Array", "IfThenElse"}
    /\ \A i \in 1..Len(t.children) : Closed(t.children[i])

\* C13: for an expression of literals, array literals and conditionals
\* whose infer_type succeeded, eval returns a value whose type is the
\* node's inferred type: a conditional widened to Float gives a Float
\* whichever branch is selected, and the items of an array inferred as
\* Array(Float) are all Float.
C13_EvalTypeSound ==
    ( /\ call.op = "eval"
      /\ Closed(At(tree, call.path))
      /\ types[call.path] # None ) =>
        /\ call.exc = "none"
        /\ TypeEq(call.result.type, types[call.path])
        /\ IsArrayType(types[call.path]) =>
                \A i \in 1..Len(call.result.items) :
                    TypeEq(call.result.items[i].type, item_type(types[call.path]))

\* ------------------------------------------- TypeEnv and Env objects
\* Most frames alive at once.
MaxFrames == 3

\* Identifiers, and the payloads bound to them (types, for a TypeEnv;
\* class Env has the same constructor and the same lookup over values).
Ids == {"x", "y"}
Payloads == {T_Int, T_Float}
FrameBindings == {None} \cup {<<id, payload>> : id \in Ids, payload \in Payloads}

\* TypeEnv.__init__(binding, parent): the frame objects with the new one
\* added at the next address; parent is the parent's address, 0 for None.
TypeEnv_init(fs, binding, parent) ==
    Append(fs, [binding |-> binding, parent |-> parent])

\* The linked list a frame heads: its binding, its parent's, ... the root's.
RECURSIVE ChainOf(_, _)
ChainOf(fs, f) ==
    <<fs[f].binding>> \o (IF fs[f].parent = 0 THEN <<>> ELSE ChainOf(fs, fs[f].parent))

\* frame[id] for the frame object at address f
Frame_getitem(fs, f, id) == TypeEnv_getitem(ChainOf(fs, f), id)

NoLookup == [op |-> "none", frame |-> 0, id |-> "", exc |-> "none", payload |-> None,
             before |-> <<>>]

\* No frame was constructed yet.
InitFrames ==
    /\ frames = <<>>
    /\ look = NoLookup

\* TypeEnv(binding, parent), parent None or a frame constructed before
NewFrame(binding, parent) ==
    /\ Len(frames) < MaxFrames
    /\ frames' = TypeEnv_init(frames, binding, parent)
    /\ look' = [NoLookup EXCEPT !.op = "new", !.frame = Len(frames) + 1,
                                !.before = frames]
    /\ UNCHANGED <<envVars, exprVars>>

\* frame[id]
GetItem(f, id) ==
    LET r == Frame_getitem(frames, f, id)
    IN  /\ look' = [NoLookup EXCEPT !.op = "getitem", !.frame = f, !.id = id,
                                    !.exc = r.exc, !.payload = r.payload,
                                    !.before = frames]
        /\ UNCHANGED <<frames, envVars, exprVars>>

NextFrames ==
    \/ \E binding \in FrameBindings, parent \in 0..Len(frames) : NewFrame(binding, parent)
    \/ \E f \in 1..Len(frames), id \in Ids : GetItem(f, id)

\* ------------------------------------------------ claims on the frames
\* The frames from f to the root, nearest first.
RECURSIVE PathToRoot(_, _)
PathToRoot(fs, f) ==
    <<f>> \o (IF fs[f].parent = 0 THEN <<>> ELSE PathToRoot(fs, fs[f].parent))

\* The positions on the way from f to the root whose frame binds id.
Binders(fs, f, id) ==
    {i \in 1..Len(PathToRoot(fs, f)) :
        /\ fs[PathToRoot(fs, f)[i]].binding # None
        /\ fs[PathToRoot(fs, f)[i]].binding[1] = id}

\* C12: a lookup returns the payload of the frame nearest to the lookup
\* point that binds the name, and raises KeyError when no frame up to the
\* root binds it; constructing a frame changes no existing frame and the
\* result of no lookup on an existing frame (the parent, its other
\* children, or any other).
C12_ScopedLookup ==
    /\ look.op = "getitem" =>
            LET way == PathToRoot(frames, look.frame)
                hits == Binders(frames, look.frame, look.id)
                nearest == CHOOSE i \in hits : \A j \in hits : i <= j
            IN  IF hits = {} THEN look.exc = "KeyError"
                ELSE /\ look.exc = "none"
                     /\ look.payload = frames[way[nearest]].binding[2]
    /\ look.op = "new" =>
            /\ Len(frames) = Len(look.before) + 1
            /\ \A f \in 1..Len(look.before) :
                    /\ frames[f] = look.before[f]
                    /\ \A id \in Ids :
                            Frame_getitem(frames, f, id) = Frame_getitem(look.before, f, id)

\* C12 (witness): frames 2 and 3 are children of frame 1; frame 3 binds x
\* to another payload than frame 1 does, and a lookup of x in frame 3
\* returned frame 3's payload.
C12_Witness ==
    /\ look.op = "getitem" /\ look.frame = 3 /\ look.id = "x" /\ look.exc = "none"
    /\ Len(frames) = 3
    /\ frames[2].parent = 1 /\ frames[3].parent = 1
    /\ frames[1].binding # None /\ frames[1].binding[1] = "x"
    /\ frames[3].binding # None /\ frames[3].binding[1] = "x"
    /\ frames[3].binding[2] # frames[1].binding[2]
    /\ look.payload = frames[3].binding[2]

\* ------------------------------------------------------- specifications
\* The binding environment under any sequence of calls.
Init == InitEnv /\ IdleExpr /\ InitFrames

Spec == Init /\ [][NextEnv]_vars

\* An expression under any sequence of calls on its nodes.
InitParsed == InitEnv /\ InitExpr /\ InitFrames

SpecExpr == InitParsed /\ [][NextExpr]_vars

\* No binding environment in use and no expression under analysis.
InitScoped == InitEnv /\ IdleExpr /\ InitFrames

\* The scoped lookup environments under any sequence of constructions and
\* lookups.
SpecFrames == InitScoped /\ [][NextFrames]_vars
====
